---- MODULE Spec2Model ----
(***************************************************************************)
(* The persistent data model of backend/recipes/models.py: eight tables    *)
(* (users, recipes, tags, ingredients and the four join tables), the field *)
(* validators, the unique constraints the model classes declare in their   *)
(* Meta, and the on_delete=CASCADE rule of every foreign key.              *)
(*                                                                         *)
(* A row is written by save() (objects.create(), QuerySet.update()), which *)
(* runs no validator: the database alone answers.  The validators run in   *)
(* full_clean(), which forms and serializers call before save(); every     *)
(* write operation is therefore taken both ways, with and without          *)
(* full_clean() first.                                                     *)
(*                                                                         *)
(* A row of Recipe, Tag or Ingredient is addressed by its primary key and  *)
(* the table is a function from the primary keys in use to the rows.  The  *)
(* surrogate key of a join row is referenced by nothing, so a join table   *)
(* is the bag (multiset) of its rows: two rows with equal columns are two  *)
(* copies of one element.                                                  *)
(***************************************************************************)
EXTENDS Bags, FiniteSets, Integers, Sequences, TLC

VARIABLES users, recipes, tags, ingredients,
          recipe_ingredient, recipe_tag, favorite, shopping_cart,
          last

entities == <<users, recipes, tags, ingredients>>
joins    == <<recipe_ingredient, recipe_tag, favorite, shopping_cart>>
tables   == <<users, recipes, tags, ingredients,
              recipe_ingredient, recipe_tag, favorite, shopping_cart>>
vars     == <<users, recipes, tags, ingredients,
              recipe_ingredient, recipe_tag, favorite, shopping_cart, last>>

(***************************************************************************)
(* Bounds of the model.                                                    *)
(***************************************************************************)
\* Largest number of rows the four join tables together are let to hold.
MaxRows == 2

\* Primary keys the database hands out.
UserIds       == {"u1", "u2"}
RecipeIds     == {1, 2}
TagIds        == {1, 2}
IngredientIds == {1}

\* Whether the installed Django checks Meta's UniqueConstraints in
\* full_clean() (it does from 3.1 on); nothing in the repository fixes it.
ConstraintsInFullClean == BOOLEAN

(***************************************************************************)
(* Field limits of the model classes.                                      *)
(***************************************************************************)
Recipe_name_max_length             == 200
Recipe_text_max_length             == 1000
Recipe_cooking_time_min            == 1
Recipe_cooking_time_max            == 600
Tag_name_max_length                == 200
Tag_color_max_length               == 7
Tag_slug_max_length                == 200
Ingredient_name_max_length         == 200
Ingredient_measurement_unit_max_length == 200
RecipeIngredient_amount_min        == 1
RecipeIngredient_amount_max        == 1000
\* PositiveSmallIntegerField: the range the field type itself accepts.
PositiveSmallInteger_min           == 0
PositiveSmallInteger_max           == 32767

(***************************************************************************)
(* Values.  A text is a string; a color or a slug, whose characters the    *)
(* validators read, is a sequence of one-character strings.  The values    *)
(* offered are never blank and lie in the range of their column type.      *)
(***************************************************************************)
RECURSIVE Repeat(_, _)
Repeat(c, n) ==
    IF n = 0 THEN ""
    ELSE LET half == Repeat(c, n \div 2)
         IN  IF n % 2 = 0 THEN half \o half ELSE half \o half \o c

Digits    == {"0", "1", "2", "3", "4", "5", "6", "7", "8", "9"}
LowerCase == {"a", "b", "c", "d", "e", "f", "g", "h", "i", "j", "k", "l", "m",
              "n", "o", "p", "q", "r", "s", "t", "u", "v", "w", "x", "y", "z"}
UpperCase == {"A", "B", "C", "D", "E", "F", "G", "H", "I", "J", "K", "L", "M",
              "N", "O", "P", "Q", "R", "S", "T", "U", "V", "W", "X", "Y", "Z"}
\* [a-fA-F0-9]
HexDigits == Digits \cup {"a", "b", "c", "d", "e", "f"}
                    \cup {"A", "B", "C", "D", "E", "F"}
\* [-a-zA-Z0-9_]
SlugChars == LowerCase \cup UpperCase \cup Digits \cup {"-", "_"}

\* django.core.validators: a value passes when it is not beyond the limit.
MinValueValidator(limit, value)  == ~(value < limit)
MaxValueValidator(limit, value)  == ~(value > limit)
MaxLengthValidator(limit, value) == ~(Len(value) > limit)

\* RegexValidator(regex='^#[a-fA-F0-9]{6}$'): the pattern is searched in the
\* value; '$' matches at the end of the value and also just before a newline
\* that ends it.
ColorRegexValidator(value) ==
    /\ Len(value) \in {7, 8}
    /\ value[1] = "#"
    /\ \A i \in 2..7 : value[i] \in HexDigits
    /\ Len(value) = 8 => value[8] = "\n"

\* SlugField's validate_slug, '^[-a-zA-Z0-9_]+\Z'.
validate_slug(value) ==
    /\ Len(value) > 0
    /\ \A i \in 1..Len(value) : value[i] \in SlugChars

\* The validators PositiveSmallIntegerField adds for the column's range.
PositiveSmallIntegerField(value) ==
    /\ MinValueValidator(PositiveSmallInteger_min, value)
    /\ MaxValueValidator(PositiveSmallInteger_max, value)

(***************************************************************************)
(* The validators of each field.                                           *)
(***************************************************************************)
Recipe_name_validators(value) ==
    MaxLengthValidator(Recipe_name_max_length, value)

Recipe_text_validators(value) ==
    MaxLengthValidator(Recipe_text_max_length, value)

\* Mutant: the MaxValueValidator is missing.
Recipe_cooking_time_validators_no_max(value) ==
    /\ PositiveSmallIntegerField(value)
    /\ MinValueValidator(Recipe_cooking_time_min, value)

Recipe_cooking_time_validators(value) ==
    /\ PositiveSmallIntegerField(value)
    /\ MinValueValidator(Recipe_cooking_time_min, value)
    /\ MaxValueValidator(Recipe_cooking_time_max, value)

Tag_name_validators(value) ==
    MaxLengthValidator(Tag_name_max_length, value)

\* Mutant: the field has no max_length.
Tag_color_validators_no_max_length(value) ==
    ColorRegexValidator(value)

Tag_color_validators(value) ==
    /\ MaxLengthValidator(Tag_color_max_length, value)
    /\ ColorRegexValidator(value)

Tag_slug_validators(value) ==
    /\ MaxLengthValidator(Tag_slug_max_length, value)
    /\ validate_slug(value)

Ingredient_name_validators(value) ==
    MaxLengthValidator(Ingredient_name_max_length, value)

Ingredient_measurement_unit_validators(value) ==
    MaxLengthValidator(Ingredient_measurement_unit_max_length, value)

RecipeIngredient_amount_validators(value) ==
    /\ PositiveSmallIntegerField(value)
    /\ MinValueValidator(RecipeIngredient_amount_min, value)
    /\ MaxValueValidator(RecipeIngredient_amount_max, value)

(***************************************************************************)
(* Constraints.  A unique=True field is one; so is each UniqueConstraint   *)
(* listed in a model's Meta.  A `constraints` attribute of the model class *)
(* itself, outside Meta, is an ordinary class attribute and gives the      *)
(* table no constraint.                                                    *)
(***************************************************************************)
Tag_unique_fields == {"name", "color", "slug"}

\* Mutants: the constraint list of Favorite, or of RecipeIngredient, outside
\* Meta, as ShoppingCart's is; RecipeTag's inside Meta and on the pair it
\* joins.
Favorite_constraints_outside_Meta == {}
RecipeIngredient_constraints_outside_Meta == {}
RecipeTag_constraints_inside_Meta == {{"recipe", "tag"}}

RecipeIngredient_Meta_constraints == {{"recipe", "ingredient"}}
RecipeTag_Meta_constraints        == {}
Favorite_Meta_constraints         == {{"user", "recipe"}}
ShoppingCart_Meta_constraints     == {}

\* The constraints that `row` would break in `table`: those whose fields it
\* repeats, all of them, from some row of the table.
BrokenConstraints(table, row, constraints) ==
    {fields \in constraints :
        \E old \in BagToSet(table) : \A f \in fields : old[f] = row[f]}

\* The unique fields in which a Tag row repeats another Tag row.
Tag_repeated_fields(pk, row) ==
    {f \in Tag_unique_fields :
        \E other \in DOMAIN tags \ {pk} : tags[other][f] = row[f]}

(***************************************************************************)
(* The foreign keys of each model: the field and the keys it may refer to. *)
(***************************************************************************)
Recipe_foreign_keys == {<<"author", users>>}
RecipeIngredient_foreign_keys ==
    {<<"recipe", DOMAIN recipes>>, <<"ingredient", DOMAIN ingredients>>}
RecipeTag_foreign_keys ==
    {<<"recipe", DOMAIN recipes>>, <<"tag", DOMAIN tags>>}
Favorite_foreign_keys ==
    {<<"user", users>>, <<"recipe", DOMAIN recipes>>}
ShoppingCart_foreign_keys ==
    {<<"user", users>>, <<"recipe", DOMAIN recipes>>}

\* The foreign-key fields of the row that refer to no row.
Dangling(row, foreign_keys) ==
    {fk[1] : fk \in {k \in foreign_keys : row[k[1]] \notin k[2]}}

(***************************************************************************)
(* Model.full_clean(): clean_fields() runs every field's validators and    *)
(* looks up every foreign key; validate_unique() then looks for a row that *)
(* repeats a unique field, or a Meta constraint where Django checks those, *)
(* leaving out what rests on a field already reported.  The result is the  *)
(* set of keys of ValidationError's error_dict, empty for a clean row.      *)
(***************************************************************************)
Recipe_clean_fields(row) ==
    {f \in {"name"} : ~Recipe_name_validators(row.name)}
      \cup {f \in {"text"} : ~Recipe_text_validators(row.text)}
      \cup {f \in {"cooking_time"} :
               ~Recipe_cooking_time_validators(row.cooking_time)}
      \cup Dangling(row, Recipe_foreign_keys)

Recipe_full_clean(row) == Recipe_clean_fields(row)

Tag_clean_fields(row) ==
    {f \in {"name"} : ~Tag_name_validators(row.name)}
      \cup {f \in {"color"} : ~Tag_color_validators(row.color)}
      \cup {f \in {"slug"} : ~Tag_slug_validators(row.slug)}

Tag_full_clean(pk, row) ==
    Tag_clean_fields(row)
      \cup (Tag_repeated_fields(pk, row) \ Tag_clean_fields(row))

Ingredient_full_clean(row) ==
    {f \in {"name"} : ~Ingredient_name_validators(row.name)}
      \cup {f \in {"measurement_unit"} :
               ~Ingredient_measurement_unit_validators(row.measurement_unit)}

\* validate_unique() over Meta's constraints: "__all__" when one that rests
\* on no reported field is broken.
ConstraintErrors(table, row, constraints, reported, checked) ==
    {e \in {"__all__"} :
        /\ checked
        /\ \E fields \in BrokenConstraints(table, row, constraints) :
              fields \cap reported = {}}

RecipeIngredient_clean_fields(row) ==
    {f \in {"amount"} : ~RecipeIngredient_amount_validators(row.amount)}
      \cup Dangling(row, RecipeIngredient_foreign_keys)

RecipeIngredient_full_clean(table, row, checked) ==
    RecipeIngredient_clean_fields(row)
      \cup ConstraintErrors(table, row, RecipeIngredient_Meta_constraints,
                            RecipeIngredient_clean_fields(row), checked)

RecipeTag_full_clean(table, row, checked) ==
    Dangling(row, RecipeTag_foreign_keys)
      \cup ConstraintErrors(table, row, RecipeTag_Meta_constraints,
                            Dangling(row, RecipeTag_foreign_keys), checked)

Favorite_full_clean(table, row, checked) ==
    Dangling(row, Favorite_foreign_keys)
      \cup ConstraintErrors(table, row, Favorite_Meta_constraints,
                            Dangling(row, Favorite_foreign_keys), checked)

ShoppingCart_full_clean(table, row, checked) ==
    Dangling(row, ShoppingCart_foreign_keys)
      \cup ConstraintErrors(table, row, ShoppingCart_Meta_constraints,
                            Dangling(row, ShoppingCart_foreign_keys), checked)

(***************************************************************************)
(* on_delete=models.CASCADE, one definition per foreign key: what is left  *)
(* of the referencing table once the rows with the keys `deleted` go.      *)
(***************************************************************************)
Cascade(table, field, deleted) ==
    [row \in {x \in DOMAIN table : x[field] \notin deleted} |-> table[row]]

\* Recipe.author: the recipes that go with the users `deleted`.
Recipe_author_on_delete(deleted) ==
    {pk \in DOMAIN recipes : recipes[pk].author \in deleted}

\* Mutants: on_delete=models.DO_NOTHING on one foreign key.
RecipeTag_recipe_DO_NOTHING(table, deleted)   == table
ShoppingCart_user_DO_NOTHING(table, deleted)  == table
Favorite_recipe_DO_NOTHING(table, deleted)    == table

RecipeIngredient_recipe_on_delete(table, deleted) ==
    Cascade(table, "recipe", deleted)
RecipeIngredient_ingredient_on_delete(table, deleted) ==
    Cascade(table, "ingredient", deleted)
RecipeTag_recipe_on_delete(table, deleted) ==
    Cascade(table, "recipe", deleted)
RecipeTag_tag_on_delete(table, deleted) ==
    Cascade(table, "tag", deleted)
Favorite_user_on_delete(table, deleted) ==
    Cascade(table, "user", deleted)
Favorite_recipe_on_delete(table, deleted) ==
    Cascade(table, "recipe", deleted)
ShoppingCart_user_on_delete(table, deleted) ==
    Cascade(table, "user", deleted)
ShoppingCart_recipe_on_delete(table, deleted) ==
    Cascade(table, "recipe", deleted)

\* The rows of a function-shaped table that are left without `deleted`.
Without(table, deleted) ==
    [pk \in DOMAIN table \ deleted |-> table[pk]]

(***************************************************************************)
(* What the last operation returned: the model and the operation, how it   *)
(* ended ("ok", or the error raised), the keys of the ValidationError that *)
(* full_clean() raised, and the number of rows a delete removed            *)
(* (Model.delete()'s count).                                               *)
(***************************************************************************)
Result(model, op, status, errors, deleted) ==
    [model |-> model, op |-> op, status |-> status,
     errors |-> errors, deleted |-> deleted]

JoinRows == BagCardinality(recipe_ingredient) + BagCardinality(recipe_tag)
              + BagCardinality(favorite) + BagCardinality(shopping_cart)

(***************************************************************************)
(* Inputs.                                                                 *)
(***************************************************************************)
Color_ABCDEF    == <<"#", "A", "B", "C", "D", "E", "F">>
Color_a1b2c3    == <<"#", "a", "1", "b", "2", "c", "3">>
Color_newline   == <<"#", "A", "B", "C", "D", "E", "F", "\n">>
Color_short     == <<"#", "A", "B", "C", "D", "E">>
Color_nothex    == <<"#", "A", "B", "C", "D", "E", "G">>

Slug_vegan      == <<"v", "e", "g", "a", "n">>
Slug_Low_fat    == <<"L", "o", "w", "-", "f", "a", "t", "_", "0">>
Slug_space      == <<"n", "o", " ", "f", "a", "t">>

Image           == "recipes/images/soup.png"

RecipeTexts  == {Repeat("x", Recipe_text_max_length),
                 Repeat("x", Recipe_text_max_length + 1)}
CookingTimes == {Recipe_cooking_time_min - 1, Recipe_cooking_time_min,
                 Recipe_cooking_time_max, Recipe_cooking_time_max + 1}
Amounts      == {RecipeIngredient_amount_min - 1, RecipeIngredient_amount_min,
                 RecipeIngredient_amount_max, RecipeIngredient_amount_max + 1}

\* Rows offered to the operations on the whole database (Spec): two users,
\* two recipes, one tag, one ingredient, every field value an accepted one.
DbTagIds == {1}
RecipeRows ==
    [author : UserIds, name : {"soup"}, image : {Image}, text : {"boil"},
     cooking_time : {Recipe_cooking_time_max}]
TagRows == [name : {"breakfast"}, color : {Color_ABCDEF}, slug : {Slug_vegan}]
IngredientRows == [name : {"salt"}, measurement_unit : {"g"}]
RecipeIngredientRows ==
    [recipe : RecipeIds, ingredient : IngredientIds,
     amount : {RecipeIngredient_amount_max}]
RecipeTagRows    == [recipe : RecipeIds, tag : DbTagIds]
FavoriteRows     == [user : UserIds, recipe : RecipeIds]
ShoppingCartRows == [user : UserIds, recipe : RecipeIds]

\* Rows offered to the operations of SpecFields: one key per table, and for
\* the validated fields the values on both sides of every limit.
FieldUserIds   == {"u1"}
FieldRecipeIds == {1}
FieldRecipeRows ==
    [author : FieldUserIds, name : {"soup"}, image : {Image},
     text : RecipeTexts,
     cooking_time : {Recipe_cooking_time_max, Recipe_cooking_time_max + 1}]
FieldTagRows ==
    [name : {"breakfast"},
     color : {Color_ABCDEF, Color_newline, Color_nothex},
     slug : {Slug_vegan}]
FieldIngredientRows ==
    [name : {"salt", Repeat("x", Ingredient_name_max_length + 1)},
     measurement_unit : {"g"}]
FieldRecipeIngredientRows ==
    [recipe : FieldRecipeIds, ingredient : IngredientIds, amount : Amounts]
FieldRecipeTagRows    == [recipe : FieldRecipeIds, tag : DbTagIds]
FieldFavoriteRows     == [user : FieldUserIds, recipe : FieldRecipeIds]
FieldShoppingCartRows == [user : FieldUserIds, recipe : FieldRecipeIds]

\* Rows offered to the operations of SpecRecipe: one author, two recipes,
\* every validated field with values on both sides of its limit.
AllRecipeRows ==
    [author : FieldUserIds,
     name : {Repeat("x", Recipe_name_max_length),
             Repeat("x", Recipe_name_max_length + 1)},
     image : {Image}, text : RecipeTexts, cooking_time : CookingTimes]

\* Rows offered to the operations of SpecTag: two rows that share nothing,
\* and rows that differ from the second in one field: a color that is
\* malformed, a slug that is, a name that is too long, or the name, the
\* color or the slug of the first.
TagRow(name, color, slug) == [name |-> name, color |-> color, slug |-> slug]
AllTagRows ==
    {TagRow("breakfast", Color_ABCDEF, Slug_vegan),
     TagRow("dinner", Color_a1b2c3, Slug_Low_fat),
     TagRow("dinner", Color_newline, Slug_Low_fat),
     TagRow("dinner", Color_short, Slug_Low_fat),
     TagRow("dinner", Color_nothex, Slug_Low_fat),
     TagRow("dinner", Color_a1b2c3, Slug_space),
     TagRow(Repeat("x", Tag_name_max_length + 1), Color_a1b2c3, Slug_Low_fat),
     TagRow("breakfast", Color_a1b2c3, Slug_Low_fat),
     TagRow("dinner", Color_ABCDEF, Slug_Low_fat),
     TagRow("dinner", Color_a1b2c3, Slug_vegan)}

(***************************************************************************)
(* The database's answer to an INSERT or UPDATE of a row.  The foreign     *)
(* keys must refer to rows and the unique constraints must hold.  A text   *)
(* longer than its varchar column is refused by a database that enforces   *)
(* the length (PostgreSQL) and stored by one that does not (SQLite); the   *)
(* repository does not fix the database, so both answers are possible.     *)
(* A TextField's column has no length.                                     *)
(***************************************************************************)
DbStatuses(overlong, dangling, repeated) ==
    {s \in {"DataError"} : overlong}
      \cup {IF dangling THEN "ForeignKeyViolation"
            ELSE IF repeated THEN "UniqueViolation" ELSE "ok"}

Recipe_db_statuses(row) ==
    DbStatuses(Len(row.name) > Recipe_name_max_length,
               Dangling(row, Recipe_foreign_keys) # {}, FALSE)

Tag_db_statuses(pk, row) ==
    DbStatuses(\/ Len(row.name) > Tag_name_max_length
               \/ Len(row.color) > Tag_color_max_length
               \/ Len(row.slug) > Tag_slug_max_length,
               FALSE, Tag_repeated_fields(pk, row) # {})

Ingredient_db_statuses(row) ==
    DbStatuses(\/ Len(row.name) > Ingredient_name_max_length
               \/ Len(row.measurement_unit)
                     > Ingredient_measurement_unit_max_length,
               FALSE, FALSE)

RecipeIngredient_db_statuses(table, row) ==
    DbStatuses(FALSE, Dangling(row, RecipeIngredient_foreign_keys) # {},
               BrokenConstraints(table, row,
                                 RecipeIngredient_Meta_constraints) # {})

RecipeTag_db_statuses(table, row) ==
    DbStatuses(FALSE, Dangling(row, RecipeTag_foreign_keys) # {},
               BrokenConstraints(table, row, RecipeTag_Meta_constraints) # {})

Favorite_db_statuses(table, row) ==
    DbStatuses(FALSE, Dangling(row, Favorite_foreign_keys) # {},
               BrokenConstraints(table, row, Favorite_Meta_constraints) # {})

ShoppingCart_db_statuses(table, row) ==
    DbStatuses(FALSE, Dangling(row, ShoppingCart_foreign_keys) # {},
               BrokenConstraints(table, row,
                                 ShoppingCart_Meta_constraints) # {})

\* The errors of a write: full_clean()'s when the caller ran it (a form, a
\* serializer), none when the row went straight to save(), objects.create(),
\* bulk_create() or QuerySet.update().
Cleaned(clean, errors) == IF clean THEN errors ELSE {}

\* How a write can end: with the ValidationError of full_clean(), which
\* keeps the row from save(), or else with the database's answer.
SaveStatuses(errors, db_statuses) ==
    IF errors # {} THEN {"ValidationError"} ELSE db_statuses

\* The table after an attempt to write `row` under key `pk`.
Save(table, pk, row, status) ==
    IF status = "ok"
    THEN [k \in DOMAIN table \cup {pk} |-> IF k = pk THEN row ELSE table[k]]
    ELSE table

\* Mutant: the row is written whatever the answer was.
InsertUnchecked(table, row, status) == table (+) SetToBag({row})

\* The join table after an attempt to add `row`.
Insert(table, row, status) ==
    IF status = "ok" THEN table (+) SetToBag({row}) ELSE table

\* The join table after an attempt to turn its row `old` into `row`.
Replace(table, old, row, status) ==
    IF status = "ok"
    THEN (table (-) SetToBag({old})) (+) SetToBag({row})
    ELSE table

\* The join table without the rows that link recipe `pk` to one of
\* `targets` through `field`, every copy of them.
Unlinked(table, pk, field, targets) ==
    [row \in {r \in BagToSet(table) :
                 ~(r.recipe = pk /\ r[field] \in targets)}
        |-> CopiesIn(row, table)]

\* The keys recipe `pk` is linked to through `field`.
Linked(table, pk, field) ==
    {r[field] : r \in {x \in BagToSet(table) : x.recipe = pk}}

(***************************************************************************)
(* Init: the empty database.                                               *)
(***************************************************************************)
Init ==
    /\ users = {}
    /\ recipes = <<>>
    /\ tags = <<>>
    /\ ingredients = <<>>
    /\ recipe_ingredient = EmptyBag
    /\ recipe_tag = EmptyBag
    /\ favorite = EmptyBag
    /\ shopping_cart = EmptyBag
    /\ last = Result("", "", "ok", {}, 0)

(***************************************************************************)
(* Users.                                                                  *)
(***************************************************************************)
CreateUser(u) ==
    /\ u \notin users
    /\ users' = users \cup {u}
    /\ last' = Result("User", "create", "ok", {}, 0)
    /\ UNCHANGED <<recipes, tags, ingredients, joins>>

\* The collector follows Recipe.author to the user's recipes and from them,
\* and from the user, to the join rows.
DeleteUser(u) ==
    /\ u \in users
    /\ LET gone == Recipe_author_on_delete({u})
       IN  /\ users' = users \ {u}
           /\ recipes' = Without(recipes, gone)
           /\ recipe_ingredient' =
                  RecipeIngredient_recipe_on_delete(recipe_ingredient, gone)
           /\ recipe_tag' = RecipeTag_recipe_on_delete(recipe_tag, gone)
           /\ favorite' =
                  Favorite_recipe_on_delete(
                      Favorite_user_on_delete(favorite, {u}), gone)
           /\ shopping_cart' =
                  ShoppingCart_recipe_on_delete(
                      ShoppingCart_user_on_delete(shopping_cart, {u}), gone)
    /\ last' = Result("User", "delete", "ok", {},
                      1 + Cardinality(DOMAIN recipes \ DOMAIN recipes')
                        + BagCardinality(recipe_ingredient
                                           (-) recipe_ingredient')
                        + BagCardinality(recipe_tag (-) recipe_tag')
                        + BagCardinality(favorite (-) favorite')
                        + BagCardinality(shopping_cart (-) shopping_cart'))
    /\ UNCHANGED <<tags, ingredients>>

(***************************************************************************)
(* Recipes.                                                                *)
(***************************************************************************)
CreateRecipe(pk, row, clean) ==
    /\ pk \notin DOMAIN recipes
    /\ LET errors == Cleaned(clean, Recipe_full_clean(row))
       IN  \E status \in SaveStatuses(errors, Recipe_db_statuses(row)) :
              /\ recipes' = Save(recipes, pk, row, status)
              /\ last' = Result("Recipe", "create", status, errors, 0)
    /\ UNCHANGED <<users, tags, ingredients, joins>>

UpdateRecipe(pk, row, clean) ==
    /\ pk \in DOMAIN recipes
    /\ LET errors == Cleaned(clean, Recipe_full_clean(row))
       IN  \E status \in SaveStatuses(errors, Recipe_db_statuses(row)) :
              /\ recipes' = Save(recipes, pk, row, status)
              /\ last' = Result("Recipe", "update", status, errors, 0)
    /\ UNCHANGED <<users, tags, ingredients, joins>>

DeleteRecipe(pk) ==
    /\ pk \in DOMAIN recipes
    /\ recipes' = Without(recipes, {pk})
    /\ recipe_ingredient' =
           RecipeIngredient_recipe_on_delete(recipe_ingredient, {pk})
    /\ recipe_tag' = RecipeTag_recipe_on_delete(recipe_tag, {pk})
    /\ favorite' = Favorite_recipe_on_delete(favorite, {pk})
    /\ shopping_cart' = ShoppingCart_recipe_on_delete(shopping_cart, {pk})
    /\ last' = Result("Recipe", "delete", "ok", {},
                      1 + BagCardinality(recipe_ingredient
                                           (-) recipe_ingredient')
                        + BagCardinality(recipe_tag (-) recipe_tag')
                        + BagCardinality(favorite (-) favorite')
                        + BagCardinality(shopping_cart (-) shopping_cart'))
    /\ UNCHANGED <<users, tags, ingredients>>

(***************************************************************************)
(* Tags.                                                                   *)
(***************************************************************************)
CreateTag(pk, row, clean) ==
    /\ pk \notin DOMAIN tags
    /\ LET errors == Cleaned(clean, Tag_full_clean(pk, row))
       IN  \E status \in SaveStatuses(errors, Tag_db_statuses(pk, row)) :
              /\ tags' = Save(tags, pk, row, status)
              /\ last' = Result("Tag", "create", status, errors, 0)
    /\ UNCHANGED <<users, recipes, ingredients, joins>>

UpdateTag(pk, row, clean) ==
    /\ pk \in DOMAIN tags
    /\ LET errors == Cleaned(clean, Tag_full_clean(pk, row))
       IN  \E status \in SaveStatuses(errors, Tag_db_statuses(pk, row)) :
              /\ tags' = Save(tags, pk, row, status)
              /\ last' = Result("Tag", "update", status, errors, 0)
    /\ UNCHANGED <<users, recipes, ingredients, joins>>

DeleteTag(pk) ==
    /\ pk \in DOMAIN tags
    /\ tags' = Without(tags, {pk})
    /\ recipe_tag' = RecipeTag_tag_on_delete(recipe_tag, {pk})
    /\ last' = Result("Tag", "delete", "ok", {},
                      1 + BagCardinality(recipe_tag (-) recipe_tag'))
    /\ UNCHANGED <<users, recipes, ingredients,
                   recipe_ingredient, favorite, shopping_cart>>

(***************************************************************************)
(* Ingredients.                                                            *)
(***************************************************************************)
CreateIngredient(pk, row, clean) ==
    /\ pk \notin DOMAIN ingredients
    /\ LET errors == Cleaned(clean, Ingredient_full_clean(row))
       IN  \E status \in SaveStatuses(errors, Ingredient_db_statuses(row)) :
              /\ ingredients' = Save(ingredients, pk, row, status)
              /\ last' = Result("Ingredient", "create", status, errors, 0)
    /\ UNCHANGED <<users, recipes, tags, joins>>

UpdateIngredient(pk, row, clean) ==
    /\ pk \in DOMAIN ingredients
    /\ LET errors == Cleaned(clean, Ingredient_full_clean(row))
       IN  \E status \in SaveStatuses(errors, Ingredient_db_statuses(row)) :
              /\ ingredients' = Save(ingredients, pk, row, status)
              /\ last' = Result("Ingredient", "update", status, errors, 0)
    /\ UNCHANGED <<users, recipes, tags, joins>>

DeleteIngredient(pk) ==
    /\ pk \in DOMAIN ingredients
    /\ ingredients' = Without(ingredients, {pk})
    /\ recipe_ingredient' =
           RecipeIngredient_ingredient_on_delete(recipe_ingredient, {pk})
    /\ last' = Result("Ingredient", "delete", "ok", {},
                      1 + BagCardinality(recipe_ingredient
                                           (-) recipe_ingredient'))
    /\ UNCHANGED <<users, recipes, tags, recipe_tag, favorite, shopping_cart>>

(***************************************************************************)
(* The join tables.  A delete removes one row (one copy).  A write that    *)
(* would add a row is taken only while the tables hold fewer than MaxRows  *)
(* rows; a refused one is always taken.                                    *)
(***************************************************************************)
CreateRecipeIngredient(row, clean, checked) ==
    /\ LET errors == Cleaned(clean,
                     RecipeIngredient_full_clean(recipe_ingredient, row,
                                                 checked))
       IN  \E status \in
                  SaveStatuses(errors,
                      RecipeIngredient_db_statuses(recipe_ingredient, row)) :
              /\ status = "ok" => JoinRows < MaxRows
              /\ recipe_ingredient' = Insert(recipe_ingredient, row, status)
              /\ last' = Result("RecipeIngredient", "create", status, errors, 0)
    /\ UNCHANGED <<entities, recipe_tag, favorite, shopping_cart>>

\* The row `old` is compared with the other rows of the table, not with
\* itself.
UpdateRecipeIngredient(old, row, clean, checked) ==
    /\ BagIn(old, recipe_ingredient)
    /\ LET rest == recipe_ingredient (-) SetToBag({old})
           errors == Cleaned(clean,
                             RecipeIngredient_full_clean(rest, row, checked))
       IN  \E status \in
                  SaveStatuses(errors,
                               RecipeIngredient_db_statuses(rest, row)) :
              /\ recipe_ingredient' =
                     Replace(recipe_ingredient, old, row, status)
              /\ last' = Result("RecipeIngredient", "update", status, errors, 0)
    /\ UNCHANGED <<entities, recipe_tag, favorite, shopping_cart>>

DeleteRecipeIngredient(row) ==
    /\ BagIn(row, recipe_ingredient)
    /\ recipe_ingredient' = recipe_ingredient (-) SetToBag({row})
    /\ last' = Result("RecipeIngredient", "delete", "ok", {}, 1)
    /\ UNCHANGED <<entities, recipe_tag, favorite, shopping_cart>>

CreateRecipeTag(row, clean, checked) ==
    /\ LET errors == Cleaned(clean,
                             RecipeTag_full_clean(recipe_tag, row, checked))
       IN  \E status \in
                  SaveStatuses(errors,
                               RecipeTag_db_statuses(recipe_tag, row)) :
              /\ status = "ok" => JoinRows < MaxRows
              /\ recipe_tag' = Insert(recipe_tag, row, status)
              /\ last' = Result("RecipeTag", "create", status, errors, 0)
    /\ UNCHANGED <<entities, recipe_ingredient, favorite, shopping_cart>>

\* The row `old` is compared with the other rows of the table, not with
\* itself.
UpdateRecipeTag(old, row, clean, checked) ==
    /\ BagIn(old, recipe_tag)
    /\ LET rest == recipe_tag (-) SetToBag({old})
           errors == Cleaned(clean, RecipeTag_full_clean(rest, row, checked))
       IN  \E status \in
                  SaveStatuses(errors, RecipeTag_db_statuses(rest, row)) :
              /\ recipe_tag' = Replace(recipe_tag, old, row, status)
              /\ last' = Result("RecipeTag", "update", status, errors, 0)
    /\ UNCHANGED <<entities, recipe_ingredient, favorite, shopping_cart>>

DeleteRecipeTag(row) ==
    /\ BagIn(row, recipe_tag)
    /\ recipe_tag' = recipe_tag (-) SetToBag({row})
    /\ last' = Result("RecipeTag", "delete", "ok", {}, 1)
    /\ UNCHANGED <<entities, recipe_ingredient, favorite, shopping_cart>>

CreateFavorite(row, clean, checked) ==
    /\ LET errors == Cleaned(clean,
                             Favorite_full_clean(favorite, row, checked))
       IN  \E status \in
                  SaveStatuses(errors, Favorite_db_statuses(favorite, row)) :
              /\ status = "ok" => JoinRows < MaxRows
              /\ favorite' = Insert(favorite, row, status)
              /\ last' = Result("Favorite", "create", status, errors, 0)
    /\ UNCHANGED <<entities, recipe_ingredient, recipe_tag, shopping_cart>>

\* The row `old` is compared with the other rows of the table, not with
\* itself.
UpdateFavorite(old, row, clean, checked) ==
    /\ BagIn(old, favorite)
    /\ LET rest == favorite (-) SetToBag({old})
           errors == Cleaned(clean, Favorite_full_clean(rest, row, checked))
       IN  \E status \in
                  SaveStatuses(errors, Favorite_db_statuses(rest, row)) :
              /\ favorite' = Replace(favorite, old, row, status)
              /\ last' = Result("Favorite", "update", status, errors, 0)
    /\ UNCHANGED <<entities, recipe_ingredient, recipe_tag, shopping_cart>>

DeleteFavorite(row) ==
    /\ BagIn(row, favorite)
    /\ favorite' = favorite (-) SetToBag({row})
    /\ last' = Result("Favorite", "delete", "ok", {}, 1)
    /\ UNCHANGED <<entities, recipe_ingredient, recipe_tag, shopping_cart>>

CreateShoppingCart(row, clean, checked) ==
    /\ LET errors == Cleaned(clean,
                         ShoppingCart_full_clean(shopping_cart, row, checked))
       IN  \E status \in
                  SaveStatuses(errors,
                               ShoppingCart_db_statuses(shopping_cart, row)) :
              /\ status = "ok" => JoinRows < MaxRows
              /\ shopping_cart' = Insert(shopping_cart, row, status)
              /\ last' = Result("ShoppingCart", "create", status, errors, 0)
    /\ UNCHANGED <<entities, recipe_ingredient, recipe_tag, favorite>>

\* The row `old` is compared with the other rows of the table, not with
\* itself.
UpdateShoppingCart(old, row, clean, checked) ==
    /\ BagIn(old, shopping_cart)
    /\ LET rest == shopping_cart (-) SetToBag({old})
           errors == Cleaned(clean,
                             ShoppingCart_full_clean(rest, row, checked))
       IN  \E status \in
                  SaveStatuses(errors, ShoppingCart_db_statuses(rest, row)) :
              /\ shopping_cart' = Replace(shopping_cart, old, row, status)
              /\ last' = Result("ShoppingCart", "update", status, errors, 0)
    /\ UNCHANGED <<entities, recipe_ingredient, recipe_tag, favorite>>

DeleteShoppingCart(row) ==
    /\ BagIn(row, shopping_cart)
    /\ shopping_cart' = shopping_cart (-) SetToBag({row})
    /\ last' = Result("ShoppingCart", "delete", "ok", {}, 1)
    /\ UNCHANGED <<entities, recipe_ingredient, recipe_tag, favorite>>

(***************************************************************************)
(* The related managers of Recipe.ingredients and Recipe.tags, which write *)
(* the rows of the through tables with no validation; `amount` is the      *)
(* through_defaults of the call.                                           *)
(***************************************************************************)
\* Recipe.ingredients.add(): a link that is there already is left alone.
RecipeIngredientsAdd(pk, target, amount) ==
    /\ pk \in DOMAIN recipes
    /\ LET row == [recipe |-> pk, ingredient |-> target, amount |-> amount]
           missing == target \notin Linked(recipe_ingredient, pk, "ingredient")
       IN  \E status \in (IF missing
                          THEN RecipeIngredient_db_statuses(
                                   recipe_ingredient, row)
                          ELSE {"ok"}) :
              /\ (missing /\ status = "ok") => JoinRows < MaxRows
              /\ recipe_ingredient' =
                     IF missing THEN Insert(recipe_ingredient, row, status)
                                ELSE recipe_ingredient
              /\ last' = Result("Recipe.ingredients", "add", status, {}, 0)
    /\ UNCHANGED <<entities, recipe_tag, favorite, shopping_cart>>

RecipeIngredientsRemove(pk, target) ==
    /\ pk \in DOMAIN recipes
    /\ recipe_ingredient' =
           Unlinked(recipe_ingredient, pk, "ingredient", {target})
    /\ last' = Result("Recipe.ingredients", "remove", "ok", {}, 0)
    /\ UNCHANGED <<entities, recipe_tag, favorite, shopping_cart>>

RecipeIngredientsClear(pk) ==
    /\ pk \in DOMAIN recipes
    /\ recipe_ingredient' =
           Unlinked(recipe_ingredient, pk, "ingredient",
                    Linked(recipe_ingredient, pk, "ingredient"))
    /\ last' = Result("Recipe.ingredients", "clear", "ok", {}, 0)
    /\ UNCHANGED <<entities, recipe_tag, favorite, shopping_cart>>

\* Recipe.ingredients.set(): the links to other keys go, the links that are
\* missing are added, in one transaction.
RecipeIngredientsSet(pk, targets, amount) ==
    /\ pk \in DOMAIN recipes
    /\ LET old == Linked(recipe_ingredient, pk, "ingredient")
           missing == targets \ old
           status == IF missing \subseteq DOMAIN ingredients
                     THEN "ok" ELSE "ForeignKeyViolation"
           after == Unlinked(recipe_ingredient, pk, "ingredient", old \ targets)
                      (+) SetToBag({[recipe |-> pk, ingredient |-> t,
                                     amount |-> amount] : t \in missing})
       IN  /\ status = "ok" =>
                  JoinRows + BagCardinality(after)
                      <= MaxRows + BagCardinality(recipe_ingredient)
           /\ recipe_ingredient' =
                  IF status = "ok" THEN after ELSE recipe_ingredient
           /\ last' = Result("Recipe.ingredients", "set", status, {}, 0)
    /\ UNCHANGED <<entities, recipe_tag, favorite, shopping_cart>>

\* Recipe.tags.add(): a link that is there already is left alone.
RecipeTagsAdd(pk, target) ==
    /\ pk \in DOMAIN recipes
    /\ LET row == [recipe |-> pk, tag |-> target]
           missing == target \notin Linked(recipe_tag, pk, "tag")
       IN  \E status \in (IF missing
                          THEN RecipeTag_db_statuses(recipe_tag, row)
                          ELSE {"ok"}) :
              /\ (missing /\ status = "ok") => JoinRows < MaxRows
              /\ recipe_tag' = IF missing THEN Insert(recipe_tag, row, status)
                                     ELSE recipe_tag
              /\ last' = Result("Recipe.tags", "add", status, {}, 0)
    /\ UNCHANGED <<entities, recipe_ingredient, favorite, shopping_cart>>

RecipeTagsRemove(pk, target) ==
    /\ pk \in DOMAIN recipes
    /\ recipe_tag' = Unlinked(recipe_tag, pk, "tag", {target})
    /\ last' = Result("Recipe.tags", "remove", "ok", {}, 0)
    /\ UNCHANGED <<entities, recipe_ingredient, favorite, shopping_cart>>

RecipeTagsClear(pk) ==
    /\ pk \in DOMAIN recipes
    /\ recipe_tag' = Unlinked(recipe_tag, pk, "tag",
                              Linked(recipe_tag, pk, "tag"))
    /\ last' = Result("Recipe.tags", "clear", "ok", {}, 0)
    /\ UNCHANGED <<entities, recipe_ingredient, favorite, shopping_cart>>

\* Recipe.tags.set(): the links to other keys go, the links that are missing
\* are added, in one transaction.
RecipeTagsSet(pk, targets) ==
    /\ pk \in DOMAIN recipes
    /\ LET old == Linked(recipe_tag, pk, "tag")
           missing == targets \ old
           status == IF missing \subseteq DOMAIN tags
                     THEN "ok" ELSE "ForeignKeyViolation"
           after == Unlinked(recipe_tag, pk, "tag", old \ targets)
                      (+) SetToBag({[recipe |-> pk, tag |-> t] : t \in missing})
       IN  /\ status = "ok" =>
                  JoinRows + BagCardinality(after)
                      <= MaxRows + BagCardinality(recipe_tag)
           /\ recipe_tag' = IF status = "ok" THEN after ELSE recipe_tag
           /\ last' = Result("Recipe.tags", "set", status, {}, 0)
    /\ UNCHANGED <<entities, recipe_ingredient, favorite, shopping_cart>>

(***************************************************************************)
(* Spec: any sequence of operations on the whole database, two users and   *)
(* two recipes, every field value an accepted one.                         *)
(***************************************************************************)
Next ==
    \/ \E u \in UserIds : CreateUser(u)
    \/ \E u \in UserIds : DeleteUser(u)
    \/ \E pk \in RecipeIds, row \in RecipeRows, clean \in BOOLEAN :
          CreateRecipe(pk, row, clean)
    \/ \E pk \in RecipeIds, row \in RecipeRows, clean \in BOOLEAN :
          UpdateRecipe(pk, row, clean)
    \/ \E pk \in RecipeIds : DeleteRecipe(pk)
    \/ \E pk \in DbTagIds, row \in TagRows, clean \in BOOLEAN :
          CreateTag(pk, row, clean)
    \/ \E pk \in DbTagIds, row \in TagRows, clean \in BOOLEAN :
          UpdateTag(pk, row, clean)
    \/ \E pk \in DbTagIds : DeleteTag(pk)
    \/ \E pk \in IngredientIds, row \in IngredientRows, clean \in BOOLEAN :
          CreateIngredient(pk, row, clean)
    \/ \E pk \in IngredientIds, row \in IngredientRows, clean \in BOOLEAN :
          UpdateIngredient(pk, row, clean)
    \/ \E pk \in IngredientIds : DeleteIngredient(pk)
    \/ \E row \in RecipeIngredientRows, clean \in BOOLEAN,
          checked \in ConstraintsInFullClean :
          CreateRecipeIngredient(row, clean, checked)
    \/ \E old \in RecipeIngredientRows, row \in RecipeIngredientRows, clean \in BOOLEAN,
          checked \in ConstraintsInFullClean :
          UpdateRecipeIngredient(old, row, clean, checked)
    \/ \E row \in RecipeIngredientRows : DeleteRecipeIngredient(row)
    \/ \E row \in RecipeTagRows, clean \in BOOLEAN,
          checked \in ConstraintsInFullClean :
          CreateRecipeTag(row, clean, checked)
    \/ \E old \in RecipeTagRows, row \in RecipeTagRows, clean \in BOOLEAN,
          checked \in ConstraintsInFullClean :
          UpdateRecipeTag(old, row, clean, checked)
    \/ \E row \in RecipeTagRows : DeleteRecipeTag(row)
    \/ \E row \in FavoriteRows, clean \in BOOLEAN,
          checked \in ConstraintsInFullClean :
          CreateFavorite(row, clean, checked)
    \/ \E old \in FavoriteRows, row \in FavoriteRows, clean \in BOOLEAN,
          checked \in ConstraintsInFullClean :
          UpdateFavorite(old, row, clean, checked)
    \/ \E row \in FavoriteRows : DeleteFavorite(row)
    \/ \E row \in ShoppingCartRows, clean \in BOOLEAN,
          checked \in ConstraintsInFullClean :
          CreateShoppingCart(row, clean, checked)
    \/ \E old \in ShoppingCartRows, row \in ShoppingCartRows, clean \in BOOLEAN,
          checked \in ConstraintsInFullClean :
          UpdateShoppingCart(old, row, clean, checked)
    \/ \E row \in ShoppingCartRows : DeleteShoppingCart(row)
    \/ \E pk \in RecipeIds, target \in IngredientIds,
          amount \in {RecipeIngredient_amount_min} :
          RecipeIngredientsAdd(pk, target, amount)
    \/ \E pk \in RecipeIds, target \in IngredientIds :
          RecipeIngredientsRemove(pk, target)
    \/ \E pk \in RecipeIds : RecipeIngredientsClear(pk)
    \/ \E pk \in RecipeIds, targets \in SUBSET IngredientIds,
          amount \in {RecipeIngredient_amount_min} :
          RecipeIngredientsSet(pk, targets, amount)
    \/ \E pk \in RecipeIds, target \in DbTagIds : RecipeTagsAdd(pk, target)
    \/ \E pk \in RecipeIds, target \in DbTagIds : RecipeTagsRemove(pk, target)
    \/ \E pk \in RecipeIds : RecipeTagsClear(pk)
    \/ \E pk \in RecipeIds, targets \in SUBSET DbTagIds :
          RecipeTagsSet(pk, targets)

Spec == Init /\ [][Next]_vars

(***************************************************************************)
(* SpecFields: any sequence of operations on the whole database, one key   *)
(* per table, the validated fields with values on both sides of their      *)
(* limits.                                                                 *)
(***************************************************************************)
NextFields ==
    \/ \E u \in FieldUserIds : CreateUser(u)
    \/ \E u \in FieldUserIds : DeleteUser(u)
    \/ \E pk \in FieldRecipeIds, row \in FieldRecipeRows, clean \in BOOLEAN :
          CreateRecipe(pk, row, clean)
    \/ \E pk \in FieldRecipeIds, row \in FieldRecipeRows, clean \in BOOLEAN :
          UpdateRecipe(pk, row, clean)
    \/ \E pk \in FieldRecipeIds : DeleteRecipe(pk)
    \/ \E pk \in DbTagIds, row \in FieldTagRows, clean \in BOOLEAN :
          CreateTag(pk, row, clean)
    \/ \E pk \in DbTagIds, row \in FieldTagRows, clean \in BOOLEAN :
          UpdateTag(pk, row, clean)
    \/ \E pk \in DbTagIds : DeleteTag(pk)
    \/ \E pk \in IngredientIds, row \in FieldIngredientRows,
          clean \in BOOLEAN :
          CreateIngredient(pk, row, clean)
    \/ \E pk \in IngredientIds, row \in FieldIngredientRows,
          clean \in BOOLEAN :
          UpdateIngredient(pk, row, clean)
    \/ \E pk \in IngredientIds : DeleteIngredient(pk)
    \/ \E row \in FieldRecipeIngredientRows, clean \in BOOLEAN,
          checked \in ConstraintsInFullClean :
          CreateRecipeIngredient(row, clean, checked)
    \/ \E old \in FieldRecipeIngredientRows, row \in FieldRecipeIngredientRows, clean \in BOOLEAN,
          checked \in ConstraintsInFullClean :
          UpdateRecipeIngredient(old, row, clean, checked)
    \/ \E row \in FieldRecipeIngredientRows : DeleteRecipeIngredient(row)
    \/ \E row \in FieldRecipeTagRows, clean \in BOOLEAN,
          checked \in ConstraintsInFullClean :
          CreateRecipeTag(row, clean, checked)
    \/ \E old \in FieldRecipeTagRows, row \in FieldRecipeTagRows, clean \in BOOLEAN,
          checked \in ConstraintsInFullClean :
          UpdateRecipeTag(old, row, clean, checked)
    \/ \E row \in FieldRecipeTagRows : DeleteRecipeTag(row)
    \/ \E row \in FieldFavoriteRows, clean \in BOOLEAN,
          checked \in ConstraintsInFullClean :
          CreateFavorite(row, clean, checked)
    \/ \E old \in FieldFavoriteRows, row \in FieldFavoriteRows, clean \in BOOLEAN,
          checked \in ConstraintsInFullClean :
          UpdateFavorite(old, row, clean, checked)
    \/ \E row \in FieldFavoriteRows : DeleteFavorite(row)
    \/ \E row \in FieldShoppingCartRows, clean \in BOOLEAN,
          checked \in ConstraintsInFullClean :
          CreateShoppingCart(row, clean, checked)
    \/ \E old \in FieldShoppingCartRows, row \in FieldShoppingCartRows, clean \in BOOLEAN,
          checked \in ConstraintsInFullClean :
          UpdateShoppingCart(old, row, clean, checked)
    \/ \E row \in FieldShoppingCartRows : DeleteShoppingCart(row)
    \/ \E pk \in FieldRecipeIds, target \in IngredientIds, amount \in Amounts :
          RecipeIngredientsAdd(pk, target, amount)
    \/ \E pk \in FieldRecipeIds, target \in IngredientIds :
          RecipeIngredientsRemove(pk, target)
    \/ \E pk \in FieldRecipeIds : RecipeIngredientsClear(pk)
    \/ \E pk \in FieldRecipeIds, targets \in SUBSET IngredientIds,
          amount \in Amounts :
          RecipeIngredientsSet(pk, targets, amount)
    \/ \E pk \in FieldRecipeIds, target \in DbTagIds :
          RecipeTagsAdd(pk, target)
    \/ \E pk \in FieldRecipeIds, target \in DbTagIds :
          RecipeTagsRemove(pk, target)
    \/ \E pk \in FieldRecipeIds : RecipeTagsClear(pk)
    \/ \E pk \in FieldRecipeIds, targets \in SUBSET DbTagIds :
          RecipeTagsSet(pk, targets)

SpecFields == Init /\ [][NextFields]_vars

(***************************************************************************)
(* SpecRecipe: the operations on users and recipes, one author and two     *)
(* recipes, with every boundary value of Recipe's validated fields.        *)
(***************************************************************************)
NextRecipe ==
    \/ \E u \in FieldUserIds : CreateUser(u)
    \/ \E u \in FieldUserIds : DeleteUser(u)
    \/ \E pk \in RecipeIds, row \in AllRecipeRows, clean \in BOOLEAN :
          CreateRecipe(pk, row, clean)
    \/ \E pk \in RecipeIds, row \in AllRecipeRows, clean \in BOOLEAN :
          UpdateRecipe(pk, row, clean)
    \/ \E pk \in RecipeIds : DeleteRecipe(pk)

SpecRecipe == Init /\ [][NextRecipe]_vars

(***************************************************************************)
(* SpecTag: the operations on tags, two tags, with well-formed and         *)
(* malformed colors, slugs and names.                                      *)
(***************************************************************************)
NextTag ==
    \/ \E pk \in TagIds, row \in AllTagRows, clean \in BOOLEAN :
          CreateTag(pk, row, clean)
    \/ \E pk \in TagIds, row \in AllTagRows, clean \in BOOLEAN :
          UpdateTag(pk, row, clean)
    \/ \E pk \in TagIds : DeleteTag(pk)

SpecTag == Init /\ [][NextTag]_vars

(***************************************************************************)
(* Properties.                                                             *)
(***************************************************************************)
\* The rows of a join table that refer to recipe pk.
RowsOfRecipe(table, pk) == {row \in BagToSet(table) : row.recipe = pk}

\* C1: the ShoppingCart table holds at most one row for any (user, recipe)
\* pair.
C1_ShoppingCartPairUnique ==
    \A row \in BagToSet(shopping_cart) : CopiesIn(row, shopping_cart) <= 1

\* C2: the Favorite table holds at most one row for any (user, recipe) pair,
\* in every reachable state; a create never adds a row for a pair that is
\* present.
C2_FavoritePairUnique ==
    \A row \in BagToSet(favorite) : CopiesIn(row, favorite) <= 1

\* A create of a Favorite was refused as a duplicate and the row it would
\* have repeated is there.
C2_Witness ==
    /\ last.model = "Favorite" /\ last.op = "create"
    /\ last.status = "UniqueViolation"
    /\ BagCardinality(favorite) >= 1

\* C3: a step that deletes recipe pk leaves no row of RecipeIngredient,
\* RecipeTag, Favorite or ShoppingCart that refers to pk.
C3_RecipeDeleteCascades ==
    [][\A pk \in DOMAIN recipes \ DOMAIN recipes' :
          /\ RowsOfRecipe(recipe_ingredient', pk) = {}
          /\ RowsOfRecipe(recipe_tag', pk) = {}
          /\ RowsOfRecipe(favorite', pk) = {}
          /\ RowsOfRecipe(shopping_cart', pk) = {}]_vars

\* A delete of a recipe has removed the recipe and two join rows with it.
C3_Witness ==
    /\ last.model = "Recipe" /\ last.op = "delete"
    /\ last.deleted >= 3

\* C4: every foreign key of every row refers to a row that exists.
C4_ReferentialIntegrity ==
    /\ \A pk \in DOMAIN recipes : recipes[pk].author \in users
    /\ \A row \in BagToSet(recipe_ingredient) :
          row.recipe \in DOMAIN recipes /\ row.ingredient \in DOMAIN ingredients
    /\ \A row \in BagToSet(recipe_tag) :
          row.recipe \in DOMAIN recipes /\ row.tag \in DOMAIN tags
    /\ \A row \in BagToSet(favorite) :
          row.user \in users /\ row.recipe \in DOMAIN recipes
    /\ \A row \in BagToSet(shopping_cart) :
          row.user \in users /\ row.recipe \in DOMAIN recipes

\* A delete of a user has taken dependent rows with it and rows of the join
\* tables are left.
C4_Witness ==
    /\ last.model = "User" /\ last.op = "delete" /\ last.deleted >= 3
    /\ JoinRows >= 1

\* C5: every Recipe row has 1 <= cooking_time <= 600.
C5_CookingTimeInRange ==
    \A pk \in DOMAIN recipes :
        1 <= recipes[pk].cooking_time /\ recipes[pk].cooking_time <= 600

\* C5, amended: a create or update of a Recipe that runs full_clean()
\* before save() is refused with a ValidationError on cooking_time, and
\* changes no table, when cooking_time is below 1 or above 600; with a
\* cooking_time from 1 to 600, an author that exists and a text of at most
\* 1000 characters it reports nothing on cooking_time, and the row is stored
\* when the write succeeds, as it does unless the database refuses the
\* name's length.
C5_ValidatedCookingTimeInRange ==
    [][\A pk \in RecipeIds, row \in AllRecipeRows :
          (CreateRecipe(pk, row, TRUE) \/ UpdateRecipe(pk, row, TRUE)) =>
             IF 1 <= row.cooking_time /\ row.cooking_time <= 600
             THEN /\ "cooking_time" \notin last'.errors
                  /\ last'.status = "ok" => recipes'[pk] = row
                  /\ (row.author \in users /\ Len(row.text) <= 1000
                        /\ Len(row.name) <= 200) => last'.status = "ok"
             ELSE /\ last'.status = "ValidationError"
                  /\ "cooking_time" \in last'.errors
                  /\ tables' = tables]_vars

\* Recipes with cooking_time 1 and 600 are stored and a write was refused
\* by full_clean() for its cooking_time alone.
C5_Witness ==
    /\ last.model = "Recipe" /\ last.status = "ValidationError"
    /\ last.errors = {"cooking_time"}
    /\ \E pk \in DOMAIN recipes : recipes[pk].cooking_time = 1
    /\ \E pk \in DOMAIN recipes : recipes[pk].cooking_time = 600

\* C6: the RecipeIngredient table holds at most one row for any (recipe,
\* ingredient) pair, and every row has 1 <= amount <= 1000.
C6_RecipeIngredientUniqueAndInRange ==
    /\ \A row \in BagToSet(recipe_ingredient) :
          /\ CopiesIn(row, recipe_ingredient) <= 1
          /\ 1 <= row.amount /\ row.amount <= 1000
    /\ \A a, b \in BagToSet(recipe_ingredient) :
          (a.recipe = b.recipe /\ a.ingredient = b.ingredient) => a = b

\* C6, amended: the RecipeIngredient table holds at most one row for any
\* (recipe, ingredient) pair, and a create for a pair that is present is
\* refused and adds nothing; a create that runs full_clean() before save()
\* is refused with a ValidationError on amount, and changes no table, when
\* amount is below 1 or above 1000, and reports nothing on amount otherwise.
C6_PairUniqueAndValidatedAmountInRange ==
    /\ [](/\ \A row \in BagToSet(recipe_ingredient) :
                CopiesIn(row, recipe_ingredient) <= 1
          /\ \A a, b \in BagToSet(recipe_ingredient) :
                (a.recipe = b.recipe /\ a.ingredient = b.ingredient) => a = b)
    /\ [][(last'.model = "RecipeIngredient" /\ last'.op = "create") =>
          \A row \in FieldRecipeIngredientRows,
             clean \in BOOLEAN, checked \in ConstraintsInFullClean :
             CreateRecipeIngredient(row, clean, checked) =>
                /\ (\E old \in BagToSet(recipe_ingredient) :
                       old.recipe = row.recipe
                         /\ old.ingredient = row.ingredient)
                   => /\ last'.status # "ok"
                      /\ tables' = tables
                /\ clean =>
                     IF 1 <= row.amount /\ row.amount <= 1000
                     THEN "amount" \notin last'.errors
                     ELSE /\ last'.status = "ValidationError"
                          /\ "amount" \in last'.errors
                          /\ tables' = tables]_vars

\* A create of a RecipeIngredient was refused by full_clean() for its amount
\* while a row with amount 1000 for the same pair is stored.
C6_Witness ==
    /\ last.model = "RecipeIngredient" /\ last.op = "create"
    /\ last.status = "ValidationError" /\ "amount" \in last.errors
    /\ \E row \in BagToSet(recipe_ingredient) : row.amount = 1000

\* C7: no two Tag rows share a name, a color or a slug, and every Tag's
\* color is '#' followed by six hexadecimal digits and nothing else.
C7_TagUniqueAndColorWellFormed ==
    /\ \A a, b \in DOMAIN tags :
          a # b => /\ tags[a].name # tags[b].name
                   /\ tags[a].color # tags[b].color
                   /\ tags[a].slug # tags[b].slug
    /\ \A pk \in DOMAIN tags :
          /\ Len(tags[pk].color) = 7
          /\ tags[pk].color[1] = "#"
          /\ \A i \in 2..7 : tags[pk].color[i] \in HexDigits

\* C7, amended: no two Tag rows share a name, a color or a slug, and a
\* create or update of a Tag that repeats another Tag's name, color or slug
\* is refused and changes no table; a create or update that runs
\* full_clean() before save() is refused with a ValidationError on color,
\* and changes no table, unless the color is '#' followed by six hexadecimal
\* digits and nothing else.
C7_TagUniqueAndValidatedColorWellFormed ==
    /\ [](\A a, b \in DOMAIN tags :
            a # b => /\ tags[a].name # tags[b].name
                     /\ tags[a].color # tags[b].color
                     /\ tags[a].slug # tags[b].slug)
    /\ [][\A pk \in TagIds, row \in AllTagRows, clean \in BOOLEAN :
             (CreateTag(pk, row, clean) \/ UpdateTag(pk, row, clean)) =>
                /\ (\E other \in DOMAIN tags \ {pk} :
                       \/ tags[other].name = row.name
                       \/ tags[other].color = row.color
                       \/ tags[other].slug = row.slug)
                   => /\ last'.status # "ok"
                      /\ tables' = tables
                /\ (clean /\ ~(/\ Len(row.color) = 7
                               /\ row.color[1] = "#"
                               /\ \A i \in 2..7 : row.color[i] \in HexDigits))
                   => /\ last'.status = "ValidationError"
                      /\ "color" \in last'.errors
                      /\ tables' = tables
                /\ last'.status = "ok" => tags'[pk] = row]_vars

\* Two tags are stored, with well-formed colors, and a write of a Tag was
\* refused by full_clean() for its color alone.
C7_Witness ==
    /\ last.model = "Tag" /\ last.status = "ValidationError"
    /\ last.errors = {"color"}
    /\ Cardinality(DOMAIN tags) = 2
    /\ \A pk \in DOMAIN tags : tags[pk].color \in {Color_ABCDEF, Color_a1b2c3}

\* C8: a step whose create was refused, by full_clean(), by a foreign key,
\* by a unique constraint or by a column's length, leaves every table as it
\* was.
C8_RejectedCreateIsAtomic ==
    [][(last'.op = "create" /\ last'.status # "ok") => tables' = tables]_vars

\* A create was refused by full_clean() while a user, a recipe and a join
\* row are stored.
C8_Witness ==
    /\ last.op = "create"
    /\ last.status = "ValidationError"
    /\ last.errors \cap {"cooking_time", "amount", "color", "text"} # {}
    /\ users # {} /\ DOMAIN recipes # {} /\ JoinRows >= 1

\* C9: a step that deletes user u removes the recipes u wrote and, from the
\* four join tables, exactly the rows that refer to u or to one of those
\* recipes; every other row stays, and tags and ingredients stay.
C9_UserDeleteCascades ==
    [][\A u \in users \ users' :
          LET gone == {pk \in DOMAIN recipes : recipes[pk].author = u}
          IN  /\ DOMAIN recipes' = DOMAIN recipes \ gone
              /\ \A pk \in DOMAIN recipes' : recipes'[pk] = recipes[pk]
              /\ \A row \in RecipeIngredientRows :
                    CopiesIn(row, recipe_ingredient') =
                      IF row.recipe \in gone THEN 0
                      ELSE CopiesIn(row, recipe_ingredient)
              /\ \A row \in RecipeTagRows :
                    CopiesIn(row, recipe_tag') =
                      IF row.recipe \in gone THEN 0
                      ELSE CopiesIn(row, recipe_tag)
              /\ \A row \in FavoriteRows :
                    CopiesIn(row, favorite') =
                      IF row.user = u \/ row.recipe \in gone THEN 0
                      ELSE CopiesIn(row, favorite)
              /\ \A row \in ShoppingCartRows :
                    CopiesIn(row, shopping_cart') =
                      IF row.user = u \/ row.recipe \in gone THEN 0
                      ELSE CopiesIn(row, shopping_cart)
              /\ UNCHANGED <<tags, ingredients>>]_vars

\* A delete of a user has removed the user, a recipe and a join row, and a
\* recipe and a join row of the other user are left.
C9_Witness ==
    /\ last.model = "User" /\ last.op = "delete" /\ last.deleted = 3
    /\ Cardinality(users) = 1 /\ Cardinality(DOMAIN recipes) = 1
    /\ BagCardinality(favorite) + BagCardinality(shopping_cart) = 1

\* C10: a create of a RecipeTag row for a recipe and a tag that exist,
\* with or without full_clean() first, succeeds and adds the row, whether or
\* not an equal row is present.
C10_RecipeTagCreateSucceeds ==
    [][(last'.model = "RecipeTag" /\ last'.op = "create") =>
       \A row \in RecipeTagRows,
          clean \in BOOLEAN, checked \in ConstraintsInFullClean :
          (/\ CreateRecipeTag(row, clean, checked)
           /\ row.recipe \in DOMAIN recipes
           /\ row.tag \in DOMAIN tags)
          => /\ last'.status = "ok"
             /\ CopiesIn(row, recipe_tag') = CopiesIn(row, recipe_tag) + 1]_vars

\* The RecipeTag table holds the same tag on the same recipe twice.
C10_Witness ==
    /\ last.model = "RecipeTag" /\ last.op = "create" /\ last.status = "ok"
    /\ \E row \in BagToSet(recipe_tag) : CopiesIn(row, recipe_tag) >= 2

====
